---- MODULE Spec2Model ----
(***************************************************************************)
(* Model of app.py: the article generator.  Three parts:                   *)
(*   - validate_input, a pure function over topic strings (SpecValidate);  *)
(*   - search_web under its tenacity retry decorator (SpecSearch);         *)
(*   - main: one user interaction at a time, with the cached               *)
(*     process_research, the proofreading stream and the session state     *)
(*     (Spec, and SpecStream with richer streams and fewer topics).        *)
(*                                                                         *)
(* A topic string is kept run-length encoded: a sequence of runs           *)
(* [ch |-> c, n |-> k] standing for k copies of c.  This keeps the real    *)
(* limits of the program (5 and 500 characters) while the sets of strings  *)
(* stay small.  html.escape maps every character on its own, so on a run   *)
(* it maps the run's character and keeps the count.                        *)
(***************************************************************************)
EXTENDS Integers, Sequences, FiniteSets, TLC

VARIABLES
    \* ---- validate_input on its own
    vQuery,         \* the raw string handed to validate_input
    vResult,        \* its outcome, or Pending before the call
    \* ---- search_web on its own
    sPc,            \* "idle", "calling", "responded", "returned", "raised"
    sAttempt,       \* attempt number of the retry decorator (1-based)
    sCalls,         \* how many times the provider was invoked
    sResp,          \* what the provider did on the current attempt
    sFirst,         \* what the provider did on the first attempt
    sSlept,         \* seconds the retry decorator has waited
    sOut,           \* the value search_web handed to its caller
    \* ---- main
    pc,             \* where the current interaction stands
    now,            \* the clock, in ticks
    article,        \* st.session_state.article
    cache,          \* the st.cache_data store of process_research
    query_input,    \* the text of the form field at submission
    clean_query,    \* the validated topic
    raw_data,       \* output of the search stage
    clean_data,     \* output of the analysis stage
    article_draft,  \* what process_research returned
    full_response,  \* the buffer of the streaming loop
    placeholder,    \* what article_placeholder shows
    error,          \* the kind of error st.error shows, or "none"
    \* ---- history of the current interaction and of the cache
    calls,          \* the stage invocations of this interaction, in order
    chunks,         \* the chunks the stream delivered so far
    articleBefore,  \* the Article when the interaction started
    lookup,         \* what the cache lookup of this interaction found, when,
                    \* and what had been computed and returned before it
    stored,         \* per topic: the draft last computed and when
    lastOk,         \* per topic: when process_research last returned a draft
    everDone,       \* some interaction ran to completion
    afterClear,     \* whether the last finished interaction was Clear, and
                    \* the Article it dropped
    profile         \* which inputs the environment draws from; never changes

validateVars == <<vQuery, vResult>>
searchVars == <<sPc, sAttempt, sCalls, sResp, sFirst, sSlept, sOut>>
locals == <<query_input, clean_query, raw_data, clean_data, article_draft,
            full_response, placeholder, error>>
history == <<calls, chunks, articleBefore, lookup, stored, lastOk, everDone, afterClear>>
mainVars == <<pc, now, article, cache, locals, history, profile>>

vars == <<validateVars, searchVars, mainVars>>

----------------------------------------------------------------------------
(* Strings *)

MAX_QUERY_LENGTH == 500
MIN_QUERY_LENGTH == 5

\* Longest topic string, in runs.
MaxRuns == 3

Whitespace == {" ", "\t"}
Markup == {"&", "<", ">", "\"", "'"}
Chars == {" ", "\t", "a", "<", "&"}
RunLens == {1, 4, 495, 500}

Runs == [ch : Chars, n : RunLens]

RECURSIVE SeqsUpTo(_, _)
SeqsUpTo(S, k) ==
    IF k = 0 THEN {<<>>}
    ELSE LET shorter == SeqsUpTo(S, k - 1)
         IN  shorter \cup {Append(s, x) : s \in {t \in shorter : Len(t) = k - 1}, x \in S}

Queries == SeqsUpTo(Runs, MaxRuns)

\* len(s)
RECURSIVE StrLen(_)
StrLen(s) == IF s = <<>> THEN 0 ELSE Head(s).n + StrLen(Tail(s))

\* str.lstrip / str.rstrip / str.strip with no argument: whitespace goes.
RECURSIVE LStrip(_)
LStrip(s) ==
    IF s = <<>> THEN <<>>
    ELSE IF Head(s).ch \in Whitespace THEN LStrip(Tail(s)) ELSE s

RECURSIVE RStrip(_)
RStrip(s) ==
    IF s = <<>> THEN <<>>
    ELSE IF s[Len(s)].ch \in Whitespace THEN RStrip(SubSeq(s, 1, Len(s) - 1)) ELSE s

Strip(s) == RStrip(LStrip(s))

\* html.escape(s) with quote=True, one character at a time.
EscapeChar(c) ==
    CASE c = "&" -> "&amp;"
      [] c = "<" -> "&lt;"
      [] c = ">" -> "&gt;"
      [] c = "\"" -> "&quot;"
      [] c = "'" -> "&#x27;"
      [] OTHER -> c

Escape(s) == [i \in 1..Len(s) |-> [ch |-> EscapeChar(s[i].ch), n |-> s[i].n]]

\* The reading of an escaped text: each entity back to its character.
UnescapeChar(c) ==
    CASE c = "&amp;" -> "&"
      [] c = "&lt;" -> "<"
      [] c = "&gt;" -> ">"
      [] c = "&quot;" -> "\""
      [] c = "&#x27;" -> "'"
      [] OTHER -> c

Unescape(s) == [i \in 1..Len(s) |-> [ch |-> UnescapeChar(s[i].ch), n |-> s[i].n]]

----------------------------------------------------------------------------
(* validate_input *)

Pending == [ok |-> FALSE, err |-> "pending", value |-> <<>>]
Rejected(kind) == [ok |-> FALSE, err |-> kind, value |-> <<>>]
Accepted(v) == [ok |-> TRUE, err |-> "none", value |-> v]

\* A plausible slip: the lower limit taken as exclusive.
validate_input_strict(query) ==
    IF query = <<>> \/ StrLen(Strip(query)) <= MIN_QUERY_LENGTH
    THEN Rejected("too_short")
    ELSE IF StrLen(query) > MAX_QUERY_LENGTH
    THEN Rejected("too_long")
    ELSE Accepted(Escape(Strip(query)))

validate_input(query) ==
    IF query = <<>> \/ StrLen(Strip(query)) < MIN_QUERY_LENGTH
    THEN Rejected("too_short")
    ELSE IF StrLen(query) > MAX_QUERY_LENGTH
    THEN Rejected("too_long")
    ELSE Accepted(Escape(Strip(query)))

ValidateInit ==
    /\ vQuery \in Queries
    /\ vResult = Pending

Validate ==
    /\ vResult = Pending
    /\ vResult' = validate_input(vQuery)
    /\ UNCHANGED vQuery

----------------------------------------------------------------------------
(* search_web *)

STOP_AFTER_ATTEMPT == 3
WAIT_FIXED == 1

\* Longest result list the provider returns in the model (max_results=10).
MaxResults == 3

Hrefs == {"u1", "u2", "u3"}
Titles == {<<[ch |-> "a", n |-> 1]>>, <<[ch |-> "<", n |-> 1]>>}
Bodies == {<<[ch |-> "&", n |-> 1]>>}

Results == [href : Hrefs, title : Titles, body : Bodies]

NoResponse == [kind |-> "none", results |-> <<>>]
ProviderRaises == [kind |-> "raise", results |-> <<>>]
ProviderReturns(rs) == [kind |-> "results", results |-> rs]

ProviderBehaviours ==
    {ProviderRaises} \cup {ProviderReturns(rs) : rs \in SeqsUpTo(Results, MaxResults)}

\* A text is a sequence of pieces: literal texts and formatted result blocks.
Lit(t) == [tag |-> "lit", title |-> <<>>, url |-> t, body |-> <<>>]

\* news_entry: "Título: ...\nURL: ...\nDescrição: ...\n"
NewsEntry(result) ==
    [tag |-> "block", title |-> Escape(result.title), url |-> result.href,
     body |-> Escape(result.body)]

NO_RESULTS == <<Lit("Nenhum resultado encontrado.")>>
NO_VALID == <<Lit("Nenhum resultado válido.")>>
SEARCH_ERROR == <<Lit("Erro na pesquisa: "), Lit("str(e)")>>
BLANK_LINE == Lit("\n\n")

\* "\n\n".join(news_results)
RECURSIVE Join(_)
Join(news) ==
    IF news = <<>> THEN <<>>
    ELSE IF Len(news) = 1 THEN <<Head(news)>>
    ELSE <<Head(news), BLANK_LINE>> \o Join(Tail(news))

\* A plausible slip: the url is never remembered, so nothing is dropped.
RECURSIVE CollectNoSeen(_, _, _)
CollectNoSeen(results, news_results, seen_urls) ==
    IF results = <<>> THEN news_results
    ELSE CollectNoSeen(Tail(results), Append(news_results, NewsEntry(Head(results))),
                       seen_urls)

\* The loop over results with news_results and seen_urls.
RECURSIVE Collect(_, _, _)
Collect(results, news_results, seen_urls) ==
    IF results = <<>> THEN news_results
    ELSE LET result == Head(results)
         IN  IF result.href \notin seen_urls
             THEN Collect(Tail(results), Append(news_results, NewsEntry(result)),
                          seen_urls \cup {result.href})
             ELSE Collect(Tail(results), news_results, seen_urls)

Return(v) == [kind |-> "return", value |-> v]
Raise == [kind |-> "raise", value |-> <<>>]

\* A plausible slip: the handler logs and lets the exception go on.
search_web_reraise(resp) ==
    IF resp.kind = "raise" THEN Raise
    ELSE IF resp.results = <<>> THEN Return(NO_RESULTS)
    ELSE LET news_results == Collect(resp.results, <<>>, {})
         IN  Return(IF news_results # <<>> THEN Join(news_results) ELSE NO_VALID)

\* The body of search_web for one provider response: try ... except Exception.
search_web(resp) ==
    IF resp.kind = "raise" THEN Return(SEARCH_ERROR)
    ELSE IF resp.results = <<>> THEN Return(NO_RESULTS)
    ELSE LET news_results == Collect(resp.results, <<>>, {})
         IN  Return(IF news_results # <<>> THEN Join(news_results) ELSE NO_VALID)

SearchInit ==
    /\ sPc = "idle"
    /\ sAttempt = 0
    /\ sCalls = 0
    /\ sResp = NoResponse
    /\ sFirst = NoResponse
    /\ sSlept = 0
    /\ sOut = <<>>

\* The decorated search_web is called: the decorator starts attempt 1.
SearchStart ==
    /\ sPc = "idle"
    /\ sPc' = "calling"
    /\ sAttempt' = 1
    /\ UNCHANGED <<sCalls, sResp, sFirst, sSlept, sOut>>

\* ddgs.text(...) returns a list or raises.
ProviderResponds ==
    /\ sPc = "calling"
    /\ \E resp \in ProviderBehaviours :
          /\ sResp' = resp
          /\ sFirst' = IF sAttempt = 1 THEN resp ELSE sFirst
    /\ sCalls' = sCalls + 1
    /\ sPc' = "responded"
    /\ UNCHANGED <<sAttempt, sSlept, sOut>>

\* The body finishes the attempt; the decorator returns its value, or on an
\* exception waits and tries again until stop_after_attempt, then raises.
SearchAttemptEnds ==
    /\ sPc = "responded"
    /\ LET outcome == search_web(sResp)
       IN  IF outcome.kind = "return"
           THEN /\ sPc' = "returned"
                /\ sOut' = outcome.value
                /\ UNCHANGED <<sAttempt, sSlept>>
           ELSE IF sAttempt >= STOP_AFTER_ATTEMPT
           THEN /\ sPc' = "raised"
                /\ UNCHANGED <<sAttempt, sSlept, sOut>>
           ELSE /\ sPc' = "calling"
                /\ sAttempt' = sAttempt + 1
                /\ sSlept' = sSlept + WAIT_FIXED
                /\ UNCHANGED sOut
    /\ UNCHANGED <<sCalls, sResp, sFirst>>

----------------------------------------------------------------------------
(* main: session state, process_research and its cache, the stream *)

\* Ticks in one hour, and the last tick of the clock.
TicksPerHour == 2
MaxTime == 2

\* CACHE_TIME = timedelta(hours=1)
CACHE_TIME == 1 * TicksPerHour

\* Most chunks one stream delivers, under the "stream" profile and under
\* the "research" profile.
MaxChunks == 3
MaxChunksResearch == 1

Text(c) == <<[ch |-> c, n |-> 1]>>

\* What the user may have typed when pressing "Gerar Artigo": nothing, too
\* little, two topics (one padded with a blank, one with markup), too much.
EMPTY_TOPIC == <<>>
SHORT_TOPIC == <<[ch |-> "a", n |-> 4]>>
TOPIC_A == <<[ch |-> " ", n |-> 1], [ch |-> "a", n |-> 4], [ch |-> "a", n |-> 1]>>
TOPIC_B == <<[ch |-> "<", n |-> 4], [ch |-> "a", n |-> 1]>>
LONG_TOPIC == <<[ch |-> "a", n |-> 500], [ch |-> "a", n |-> 1]>>

AllTopics == {EMPTY_TOPIC, SHORT_TOPIC, TOPIC_A, TOPIC_B, LONG_TOPIC}

\* The model is run under two profiles of its environment.  "research":
\* two topics and two drafts, streams of the two simplest chunks.
\* "stream": one topic and one draft, streams of every kind of chunk.
Topics(p) == IF p = "research" THEN AllTopics ELSE AllTopics \ {TOPIC_B}

CacheKeys == {validate_input(t).value : t \in {u \in AllTopics : validate_input(u).ok}}

RawData(p) == IF p = "research" THEN {Text("raw1"), Text("raw2")} ELSE {Text("raw1")}
CleanData(p) == IF p = "research" THEN {Text("clean1"), Text("clean2")} ELSE {Text("clean1")}
Drafts(p) == IF p = "research" THEN {Text("draft1"), Text("draft2")} ELSE {Text("draft1")}

RAISED == Text("raised")
NOTHING == <<>>

CURSOR == [ch |-> "cursor", n |-> 1]

\* A chunk of the stream: a dict whose 'content' is missing (or None, which
\* chunk.get('content') does not tell from missing), "" or text (which may
\* itself hold the glyph the display uses as a cursor).
Chunk(has, content) == [has |-> has, content |-> content]
ChunkValues(p) ==
    IF p = "research"
    THEN { Chunk("missing", <<>>), Chunk("text", Text("a")) }
    ELSE { Chunk("missing", <<>>), Chunk("text", <<>>),
           Chunk("text", Text("a")), Chunk("text", Text("b") \o <<CURSOR>>) }

StreamLimit(p) == IF p = "research" THEN MaxChunksResearch ELSE MaxChunks

\* chunk.get('content') is truthy
HasContent(chunk) == chunk.has = "text" /\ chunk.content # <<>>

NoEntry == [present |-> FALSE, value |-> NOTHING, at |-> 0]
Entry(v, t) == [present |-> TRUE, value |-> v, at |-> t]

NoLookup == [done |-> FALSE, hit |-> FALSE, at |-> 0, prevOk |-> -1, entry |-> NoEntry]

NoClear == [on |-> FALSE, dropped |-> <<>>]

\* The messages handed to the stages.
Prompt(instr, content) == [instr |-> instr, content |-> content]
SearchPrompt(query) == Prompt("Pesquise sobre: ", query)
AnalysisPrompt(data) == Prompt("Analise estes dados:\n", data)
DraftPrompt(data) == Prompt("Crie um artigo usando:\n", data)
ProofreadPrompt(draft) == Prompt("Revise:\n", draft)

Call(stage, input, output) == [stage |-> stage, input |-> input, output |-> output]

\* A plausible slip: entries never expire.
CacheValidForever(entry, t) == entry.present

\* st.cache_data(ttl=CACHE_TIME): an entry serves until it is CACHE_TIME old.
CacheValid(entry, t) == entry.present /\ t < entry.at + CACHE_TIME

MainInit(p) ==
    /\ pc = "Idle"
    /\ now = 0
    /\ article = <<>>
    /\ cache = [k \in CacheKeys |-> NoEntry]
    /\ query_input = <<>>
    /\ clean_query = <<>>
    /\ raw_data = NOTHING
    /\ clean_data = NOTHING
    /\ article_draft = NOTHING
    /\ full_response = <<>>
    /\ placeholder = <<>>
    /\ error = "none"
    /\ calls = <<>>
    /\ chunks = <<>>
    /\ articleBefore = <<>>
    /\ lookup = NoLookup
    /\ stored = [k \in CacheKeys |-> NoEntry]
    /\ lastOk = [k \in CacheKeys |-> -1]
    /\ everDone = FALSE
    /\ afterClear = NoClear
    /\ profile = p

\* Time passes.  The clock is read when process_research is called and when
\* its result is stored, so it is let advance between interactions and
\* while the stages of process_research work.
Tick ==
    /\ pc \in {"Idle", "Analysis"}
    /\ now < MaxTime
    /\ now' = now + 1
    /\ UNCHANGED <<pc, article, cache, locals, history, profile>>

\* A plausible slip: clearing "everything" also empties the cache.
ClearEvicts ==
    /\ pc = "Idle"
    /\ article' = <<>>
    /\ cache' = [k \in CacheKeys |-> NoEntry]
    /\ afterClear' = [on |-> TRUE, dropped |-> article]
    /\ UNCHANGED <<pc, now, locals, calls, chunks, articleBefore, lookup,
                   stored, lastOk, everDone, profile>>

\* "Limpar Tudo": st.session_state.clear(), st.rerun(), and the rerun sets
\* the article to "" again.
Clear ==
    /\ pc = "Idle"
    /\ article' = <<>>
    /\ afterClear' = [on |-> TRUE, dropped |-> article]
    /\ UNCHANGED <<pc, now, cache, locals, calls, chunks, articleBefore, lookup,
                   stored, lastOk, everDone, profile>>

\* "Gerar Artigo" with the field holding q: the guard on the field, then
\* validate_input.
Submit ==
    /\ pc = "Idle"
    /\ \E q \in Topics(profile) :
          /\ query_input' = q
          /\ IF q = <<>>
             THEN /\ pc' = "Skipped"
                  /\ UNCHANGED <<clean_query, error>>
             ELSE LET v == validate_input(q)
                  IN  IF v.ok
                      THEN /\ pc' = "Research"
                           /\ clean_query' = v.value
                           /\ UNCHANGED error
                      ELSE /\ pc' = "Failed"
                           /\ error' = v.err
                           /\ UNCHANGED clean_query
    /\ articleBefore' = article
    /\ UNCHANGED <<now, article, cache, raw_data, clean_data, article_draft,
                   full_response, placeholder, calls, chunks, lookup, stored,
                   lastOk, everDone, afterClear, profile>>

\* process_research(clean_query) reaches the cache decorator.
Research ==
    /\ pc = "Research"
    /\ LET hit == CacheValid(cache[clean_query], now)
       IN  /\ lookup' = [done |-> TRUE, hit |-> hit, at |-> now,
                         prevOk |-> lastOk[clean_query],
                         entry |-> stored[clean_query]]
           /\ IF hit
              THEN /\ article_draft' = cache[clean_query].value
                   /\ lastOk' = [lastOk EXCEPT ![clean_query] = now]
                   /\ pc' = "Proofread"
              ELSE /\ pc' = "Search"
                   /\ UNCHANGED <<article_draft, lastOk>>
    /\ UNCHANGED <<now, article, cache, query_input, clean_query, raw_data,
                   clean_data, full_response, placeholder, error, calls, chunks,
                   articleBefore, stored, everDone, afterClear, profile>>

\* A plausible slip: an error of the search stage is turned into its output
\* and the run goes on, as search_web does with the provider's errors.
SearchStageSwallows ==
    /\ pc = "Search"
    /\ \E out \in RawData(profile) \cup {RAISED} :
          /\ calls' = Append(calls, Call("search", SearchPrompt(clean_query), out))
          /\ pc' = "Analysis"
          /\ raw_data' = out
          /\ UNCHANGED error
    /\ UNCHANGED <<now, article, cache, query_input, clean_query, clean_data,
                   article_draft, full_response, placeholder, chunks,
                   articleBefore, lookup, stored, lastOk, everDone, afterClear, profile>>

\* client.run(web_search_agent, ...): returns the raw data or raises.
SearchStage ==
    /\ pc = "Search"
    /\ \E out \in RawData(profile) \cup {RAISED} :
          /\ calls' = Append(calls, Call("search", SearchPrompt(clean_query), out))
          /\ IF out = RAISED
             THEN /\ pc' = "Failed"
                  /\ error' = "stage"
                  /\ UNCHANGED raw_data
             ELSE /\ pc' = "Analysis"
                  /\ raw_data' = out
                  /\ UNCHANGED error
    /\ UNCHANGED <<now, article, cache, query_input, clean_query, clean_data,
                   article_draft, full_response, placeholder, chunks,
                   articleBefore, lookup, stored, lastOk, everDone, afterClear, profile>>

\* client.run(researcher_agent, ...)
AnalysisStage ==
    /\ pc = "Analysis"
    /\ \E out \in CleanData(profile) \cup {RAISED} :
          /\ calls' = Append(calls, Call("analysis", AnalysisPrompt(raw_data), out))
          /\ IF out = RAISED
             THEN /\ pc' = "Failed"
                  /\ error' = "stage"
                  /\ UNCHANGED clean_data
             ELSE /\ pc' = "Draft"
                  /\ clean_data' = out
                  /\ UNCHANGED error
    /\ UNCHANGED <<now, article, cache, query_input, clean_query, raw_data,
                   article_draft, full_response, placeholder, chunks,
                   articleBefore, lookup, stored, lastOk, everDone, afterClear, profile>>

\* client.run(writer_agent, ...); on return the decorator stores the draft.
DraftStage ==
    /\ pc = "Draft"
    /\ \E out \in Drafts(profile) \cup {RAISED} :
          /\ calls' = Append(calls, Call("draft", DraftPrompt(clean_data), out))
          /\ IF out = RAISED
             THEN /\ pc' = "Failed"
                  /\ error' = "stage"
                  /\ UNCHANGED <<article_draft, cache, stored, lastOk>>
             ELSE /\ pc' = "Proofread"
                  /\ article_draft' = out
                  /\ cache' = [cache EXCEPT ![clean_query] = Entry(out, now)]
                  /\ stored' = [stored EXCEPT ![clean_query] = Entry(out, now)]
                  /\ lastOk' = [lastOk EXCEPT ![clean_query] = now]
                  /\ UNCHANGED error
    /\ UNCHANGED <<now, article, query_input, clean_query, raw_data, clean_data,
                   full_response, placeholder, chunks, articleBefore, lookup,
                   everDone, afterClear, profile>>

\* client.run(proofreader_agent, ..., stream=True): a stream, or an error.
ProofreadStart ==
    /\ pc = "Proofread"
    /\ \E out \in {Text("stream"), RAISED} :
          /\ calls' = Append(calls, Call("proofread", ProofreadPrompt(article_draft), out))
          /\ IF out = RAISED
             THEN /\ pc' = "Failed"
                  /\ error' = "stage"
                  /\ UNCHANGED <<full_response, placeholder>>
             ELSE /\ pc' = "Streaming"
                  /\ full_response' = <<>>
                  /\ placeholder' = <<>>
                  /\ UNCHANGED error
    /\ UNCHANGED <<now, article, cache, query_input, clean_query, raw_data,
                   clean_data, article_draft, chunks, articleBefore, lookup,
                   stored, lastOk, everDone, afterClear, profile>>

\* A plausible slip: the session state is updated on every chunk.
StreamChunkStoresPartial ==
    /\ pc = "Streaming"
    /\ Len(chunks) < StreamLimit(profile)
    /\ \E chunk \in ChunkValues(profile) :
          /\ chunks' = Append(chunks, chunk)
          /\ IF HasContent(chunk)
             THEN /\ full_response' = full_response \o chunk.content
                  /\ placeholder' = (full_response \o chunk.content) \o <<CURSOR>>
                  /\ article' = full_response \o chunk.content
             ELSE UNCHANGED <<full_response, placeholder, article>>
    /\ UNCHANGED <<pc, now, cache, query_input, clean_query, raw_data,
                   clean_data, article_draft, error, calls, articleBefore, lookup,
                   stored, lastOk, everDone, afterClear, profile>>

\* One turn of the loop over proofread_stream.
StreamChunk ==
    /\ pc = "Streaming"
    /\ Len(chunks) < StreamLimit(profile)
    /\ \E chunk \in ChunkValues(profile) :
          /\ chunks' = Append(chunks, chunk)
          /\ IF HasContent(chunk)
             THEN /\ full_response' = full_response \o chunk.content
                  /\ placeholder' = (full_response \o chunk.content) \o <<CURSOR>>
             ELSE UNCHANGED <<full_response, placeholder>>
    /\ UNCHANGED <<pc, now, article, cache, query_input, clean_query, raw_data,
                   clean_data, article_draft, error, calls, articleBefore, lookup,
                   stored, lastOk, everDone, afterClear, profile>>

\* The stream raises while it is being read.
StreamRaises ==
    /\ pc = "Streaming"
    /\ pc' = "Failed"
    /\ error' = "stage"
    /\ UNCHANGED <<now, article, cache, query_input, clean_query, raw_data,
                   clean_data, article_draft, full_response, placeholder, calls,
                   chunks, articleBefore, lookup, stored, lastOk, everDone,
                   afterClear, profile>>

\* A plausible slip: what is stored is what was last shown, cursor and all.
StreamEndsKeepsCursor ==
    /\ pc = "Streaming"
    /\ placeholder' = full_response
    /\ article' = placeholder
    /\ pc' = "Done"
    /\ everDone' = TRUE
    /\ UNCHANGED <<now, cache, query_input, clean_query, raw_data, clean_data,
                   article_draft, full_response, error, calls, chunks,
                   articleBefore, lookup, stored, lastOk, afterClear, profile>>

\* The stream is exhausted: the buffer is shown and stored.
StreamEnds ==
    /\ pc = "Streaming"
    /\ placeholder' = full_response
    /\ article' = full_response
    /\ pc' = "Done"
    /\ everDone' = TRUE
    /\ UNCHANGED <<now, cache, query_input, clean_query, raw_data, clean_data,
                   article_draft, full_response, error, calls, chunks,
                   articleBefore, lookup, stored, lastOk, afterClear, profile>>

\* The script shows the article and ends; its local variables are gone.
Render ==
    /\ pc \in {"Done", "Failed", "Skipped"}
    /\ pc' = "Idle"
    /\ query_input' = <<>>
    /\ clean_query' = <<>>
    /\ raw_data' = NOTHING
    /\ clean_data' = NOTHING
    /\ article_draft' = NOTHING
    /\ full_response' = <<>>
    /\ placeholder' = <<>>
    /\ error' = "none"
    /\ calls' = <<>>
    /\ chunks' = <<>>
    /\ articleBefore' = <<>>
    /\ lookup' = NoLookup
    /\ afterClear' = NoClear
    /\ UNCHANGED <<now, article, cache, stored, lastOk, everDone, profile>>

----------------------------------------------------------------------------
(* Specifications *)

\* validate_input on its own is not running.
ValidateIdle ==
    /\ vQuery = <<>>
    /\ vResult = Pending

Init == ValidateIdle /\ SearchInit /\ MainInit("research")

Next ==
    \/ (Tick /\ UNCHANGED <<validateVars, searchVars>>)
    \/ (Clear /\ UNCHANGED <<validateVars, searchVars>>)
    \/ (Submit /\ UNCHANGED <<validateVars, searchVars>>)
    \/ (Research /\ UNCHANGED <<validateVars, searchVars>>)
    \/ (SearchStage /\ UNCHANGED <<validateVars, searchVars>>)
    \/ (AnalysisStage /\ UNCHANGED <<validateVars, searchVars>>)
    \/ (DraftStage /\ UNCHANGED <<validateVars, searchVars>>)
    \/ (ProofreadStart /\ UNCHANGED <<validateVars, searchVars>>)
    \/ (StreamChunk /\ UNCHANGED <<validateVars, searchVars>>)
    \/ (StreamRaises /\ UNCHANGED <<validateVars, searchVars>>)
    \/ (StreamEnds /\ UNCHANGED <<validateVars, searchVars>>)
    \/ (Render /\ UNCHANGED <<validateVars, searchVars>>)

Spec == Init /\ [][Next]_vars

InitStream == ValidateIdle /\ SearchInit /\ MainInit("stream")

SpecStream == InitStream /\ [][Next]_vars

ValidateNext == Validate /\ UNCHANGED <<searchVars, mainVars>>

InitValidate == ValidateInit /\ SearchInit /\ MainInit("research")

SpecValidate == InitValidate /\ [][ValidateNext]_vars

SearchNext ==
    \/ (SearchStart /\ UNCHANGED <<validateVars, mainVars>>)
    \/ (ProviderResponds /\ UNCHANGED <<validateVars, mainVars>>)
    \/ (SearchAttemptEnds /\ UNCHANGED <<validateVars, mainVars>>)

SpecSearch == Init /\ [][SearchNext]_vars

----------------------------------------------------------------------------
(* Properties of validate_input, checked under SpecValidate *)

AllSpace(s) == \A i \in 1..Len(s) : s[i].ch \in Whitespace

\* t is q without the whitespace around it.
IsTrimOf(t, q) ==
    /\ \E i \in 0..Len(q), j \in 0..Len(q) :
          /\ i <= j
          /\ t = SubSeq(q, i + 1, j)
          /\ AllSpace(SubSeq(q, 1, i))
          /\ AllSpace(SubSeq(q, j + 1, Len(q)))
    /\ t # <<>> => (t[1].ch \notin Whitespace /\ t[Len(t)].ch \notin Whitespace)

Trimmed(q) ==
    CHOOSE t \in {SubSeq(q, i, j) : i \in 1..(Len(q) + 1), j \in 0..Len(q)} : IsTrimOf(t, q)

NoMarkup(s) == \A i \in 1..Len(s) : s[i].ch \notin Markup

HasMarkup(s) == \E i \in 1..Len(s) : s[i].ch \in Markup

TrimmedInRange(q) ==
    /\ StrLen(Trimmed(q)) >= MIN_QUERY_LENGTH
    /\ StrLen(Trimmed(q)) <= MAX_QUERY_LENGTH

ReturnsEscapedTrim(q, r) ==
    /\ r.ok
    /\ Unescape(r.value) = Trimmed(q)
    /\ NoMarkup(r.value)

\* C1 as stated: every raw string whose trimmed length is in [5, 500] is
\* accepted and comes back trimmed and escaped, whatever its untrimmed
\* length.
C1_AcceptsByTrimmedLength ==
    (vResult # Pending /\ TrimmedInRange(vQuery)) => ReturnsEscapedTrim(vQuery, vResult)

\* C1 amended: every raw string whose trimmed length is at least 5 and whose
\* untrimmed length is at most 500 is accepted and comes back trimmed and
\* escaped; a string whose untrimmed length is above 500 is rejected as too
\* long although its trimmed length is in [5, 500].
C1_AcceptsByRawLength ==
    vResult # Pending =>
        /\ (TrimmedInRange(vQuery) /\ StrLen(vQuery) <= MAX_QUERY_LENGTH)
              => ReturnsEscapedTrim(vQuery, vResult)
        /\ (TrimmedInRange(vQuery) /\ StrLen(vQuery) > MAX_QUERY_LENGTH)
              => (~vResult.ok /\ vResult.err = "too_long")

\* A padded topic with markup in it, of trimmed length exactly 5, accepted.
C1_Witness ==
    /\ vResult.ok
    /\ StrLen(Trimmed(vQuery)) = MIN_QUERY_LENGTH
    /\ StrLen(vQuery) > MIN_QUERY_LENGTH
    /\ HasMarkup(Trimmed(vQuery))

----------------------------------------------------------------------------
(* Properties of search_web, checked under SpecSearch *)

\* C2: an error string is returned only after the provider was invoked
\* STOP_AFTER_ATTEMPT times, with WAIT_FIXED waited between the attempts.
C2_ErrorOnlyAfterAllAttempts ==
    (sPc = "returned" /\ sOut = SEARCH_ERROR) =>
        /\ sCalls = STOP_AFTER_ATTEMPT
        /\ sSlept = (STOP_AFTER_ATTEMPT - 1) * WAIT_FIXED

BlocksOf(text) == SelectSeq(text, LAMBDA piece : piece.tag = "block")

FirstIndex(rs, u) ==
    CHOOSE i \in 1..Len(rs) : rs[i].href = u /\ \A j \in 1..(i - 1) : rs[j].href # u

\* C5: for a non-empty result list the output holds exactly one block per
\* distinct url, the block of the first result with that url, the blocks in
\* the order in which their urls first appear, a blank line between them.
C5_OneBlockPerUrl ==
    (sPc = "returned" /\ sResp.kind = "results" /\ sResp.results # <<>>) =>
        LET rs == sResp.results
            bl == BlocksOf(sOut)
        IN  /\ {bl[i].url : i \in 1..Len(bl)} = {rs[i].href : i \in 1..Len(rs)}
            /\ \A i, j \in 1..Len(bl) :
                  i < j => /\ bl[i].url # bl[j].url
                           /\ FirstIndex(rs, bl[i].url) < FirstIndex(rs, bl[j].url)
            /\ \A i \in 1..Len(bl) : bl[i] = NewsEntry(rs[FirstIndex(rs, bl[i].url)])
            /\ Len(sOut) = 2 * Len(bl) - 1
            /\ \A k \in 1..Len(sOut) :
                  sOut[k] = IF k % 2 = 1 THEN bl[(k + 1) \div 2] ELSE BLANK_LINE

\* Three results, the third repeating the url of the first under another
\* title, the second with a url of its own.
C5_Witness ==
    /\ sPc = "returned"
    /\ sResp.kind = "results"
    /\ Len(sResp.results) = 3
    /\ sResp.results[1].href = sResp.results[3].href
    /\ sResp.results[1].title # sResp.results[3].title
    /\ sResp.results[2].href # sResp.results[1].href

NonEmptyText(text) ==
    /\ text # <<>>
    /\ \A i \in 1..Len(text) : text[i].tag = "block" \/ text[i].url # ""

\* C8: search_web never raises to its caller; whatever the provider does it
\* returns a non-empty string: the blocks, the no-results sentence or the
\* error description.
C8_SearchNeverRaises ==
    /\ sPc # "raised"
    /\ sPc = "returned" =>
          /\ NonEmptyText(sOut)
          /\ sResp.kind = "raise" => sOut = SEARCH_ERROR
          /\ (sResp.kind = "results" /\ sResp.results = <<>>) => sOut = NO_RESULTS
          /\ (sResp.kind = "results" /\ sResp.results # <<>>) => BlocksOf(sOut) # <<>>

\* The provider raised and search_web returned.
C8_Witness == sPc = "returned" /\ sFirst.kind = "raise"

----------------------------------------------------------------------------
(* Properties of main, checked under Spec and SpecStream *)

ResearchStages == {"search", "analysis", "draft"}
StageOrder == <<"search", "analysis", "draft", "proofread">>

StagesOf(cs) == [i \in 1..Len(cs) |-> cs[i].stage]
ResearchCalls(cs) == SelectSeq(cs, LAMBDA c : c.stage \in ResearchStages)
IsPrefix(a, b) == Len(a) <= Len(b) /\ a = SubSeq(b, 1, Len(a))
NoneRaised(cs) == \A i \in 1..Len(cs) : cs[i].output # RAISED

\* The draft computed before this lookup was stored less than CACHE_TIME
\* before it.
Fresh(l) == l.entry.present /\ l.at < l.entry.at + CACHE_TIME

\* process_research returned a draft for this topic less than CACHE_TIME
\* before this lookup.
RecentOk(l) == l.prevOk >= 0 /\ l.at - l.prevOk < CACHE_TIME

ServedFromCache ==
    /\ lookup.hit
    /\ ResearchCalls(calls) = <<>>
    /\ article_draft = lookup.entry.value

\* The stages start over at the search stage and none is skipped: a draft
\* is at hand only once all three have returned.
FullRerun ==
    /\ ~lookup.hit
    /\ IsPrefix(StagesOf(calls), StageOrder)
    /\ (pc \in {"Proofread", "Streaming", "Done"} \/ Len(calls) > 3) =>
          (Len(ResearchCalls(calls)) = 3 /\ NoneRaised(ResearchCalls(calls)))

\* C3 as stated: a call less than one hour after a call for the same topic
\* that returned a draft is served the identical draft with no stage
\* invocation; a call after the entry has expired runs all three stages.
C3_HitWithinHourOfLastSuccess ==
    lookup.done =>
        /\ RecentOk(lookup) => ServedFromCache
        /\ ~Fresh(lookup) => FullRerun

\* C3 amended: a call less than one hour after the draft for the same topic
\* was last computed and stored is served that draft with no stage
\* invocation; any other call, one made an hour or more after the draft was
\* stored included, however recently the cache served it, runs the stages
\* again from the search stage and has a draft only after all three.
C3_HitWithinHourOfStore ==
    lookup.done => IF Fresh(lookup) THEN ServedFromCache ELSE FullRerun

\* A run served from the cache a tick or more after the draft was stored.
C3_Witness ==
    /\ pc = "Done"
    /\ lookup.hit
    /\ lookup.at > lookup.entry.at

\* C4: a run that fails leaves the Article as it was when the run started,
\* and so does a run that has not finished; the Article is empty as long as
\* no run has finished.
C4_FailureKeepsArticle ==
    /\ pc \in {"Failed", "Research", "Search", "Analysis", "Draft", "Proofread",
               "Streaming"} => article = articleBefore
    /\ ~everDone => article = <<>>

\* A stream that failed after some text had been accumulated, in a session
\* holding another Article.
C4_Witness ==
    /\ pc = "Failed"
    /\ full_response # <<>>
    /\ articleBefore # <<>>
    /\ full_response # articleBefore

RECURSIVE Flatten(_)
Flatten(cs) == IF cs = <<>> THEN <<>> ELSE Head(cs).content \o Flatten(Tail(cs))

\* C6: while the stream is read the buffer is the concatenation, in arrival
\* order, of the text of the chunks read; on exhaustion the Article is that
\* concatenation, with no cursor added.
C6_ArticleIsConcatenation ==
    /\ pc = "Streaming" => full_response = Flatten(chunks)
    /\ pc = "Done" => (article = Flatten(chunks) /\ placeholder = article)

\* Text, a chunk without content, text: stored in that order.
C6_Witness ==
    /\ pc = "Done"
    /\ Len(chunks) = 3
    /\ chunks[1] = Chunk("text", Text("a"))
    /\ chunks[2] = Chunk("missing", <<>>)
    /\ chunks[3] = Chunk("text", Text("b") \o <<CURSOR>>)

GoodTopic(q) ==
    /\ StrLen(Trimmed(q)) >= MIN_QUERY_LENGTH
    /\ StrLen(q) <= MAX_QUERY_LENGTH

\* The run got as far as the cache or a stage.
Started ==
    \/ lookup.done
    \/ calls # <<>>
    \/ pc \in {"Research", "Search", "Analysis", "Draft", "Proofread", "Streaming", "Done"}

RejectedByValidation ==
    /\ pc = "Failed"
    /\ error = (IF StrLen(Trimmed(query_input)) < MIN_QUERY_LENGTH
                THEN "too_short" ELSE "too_long")
    /\ ~Started

\* C7: in every run nothing is started (no cache lookup, no stage) unless
\* the submitted topic passed validation, and every submitted topic that is
\* too short or too long is rejected with a validation error.
C7_EveryBadTopicRejected ==
    pc # "Idle" =>
        /\ Started => GoodTopic(query_input)
        /\ ~GoodTopic(query_input) => RejectedByValidation

\* What main does guarantee: nothing is started unless the topic passed
\* validation; a non-empty topic that is too short or too long is rejected
\* with a validation error; an empty submission never reaches
\* validate_input, and the run ends with no error shown.
ValidatedBeforeStarted ==
    pc # "Idle" =>
        /\ Started => GoodTopic(query_input)
        /\ (~GoodTopic(query_input) /\ query_input # <<>>) => RejectedByValidation
        /\ query_input = <<>> => (pc = "Skipped" /\ error = "none" /\ ~Started)

\* C9: after Clear there is no Article until a run finishes, nothing has
\* left the cache, and a run within the TTL of the stored draft is served
\* from the cache.
C9_ClearKeepsCache ==
    afterClear.on =>
        /\ pc # "Done" => article = <<>>
        /\ cache = stored
        /\ (lookup.done /\ Fresh(lookup)) => ServedFromCache

\* Clear dropped an Article, and the next run was served from the cache.
C9_Witness ==
    /\ afterClear.on
    /\ afterClear.dropped # <<>>
    /\ pc = "Proofread"
    /\ lookup.hit

PromptOf(stage, data) ==
    CASE stage = "analysis" -> AnalysisPrompt(data)
      [] stage = "draft" -> DraftPrompt(data)
      [] stage = "proofread" -> ProofreadPrompt(data)
      [] OTHER -> SearchPrompt(data)

\* The stages in their order, each fed the output of the one before.
Chained(cs) ==
    \A i \in 1..Len(cs) :
        /\ cs[i].stage = StageOrder[i]
        /\ cs[i].input = PromptOf(cs[i].stage, IF i = 1 THEN clean_query ELSE cs[i - 1].output)

\* No stage is invoked after one that raised.
RaiseIsLast(cs) == \A i \in 1..(Len(cs) - 1) : cs[i].output # RAISED

Miss == lookup.done /\ ~lookup.hit

\* The cache holds for the topic what it held before the run, which does
\* not serve: the next run starts from the search stage.
NothingCached ==
    /\ cache[clean_query] = lookup.entry
    /\ ~(cache[clean_query].present /\ now < cache[clean_query].at + CACHE_TIME)

\* C10 as stated: in a run that misses the cache the stages run in order,
\* each on the output of the one before; if any of the four raises, no
\* later stage runs and nothing is cached for the topic.
C10_AnyFailureCachesNothing ==
    Miss =>
        /\ Chained(calls)
        /\ RaiseIsLast(calls)
        /\ pc = "Failed" => NothingCached

\* C10 amended: as stated when the search, analysis or draft stage raises;
\* when the proofreading stage raises, at its start or while it streams,
\* the draft has already been cached for the topic and stays cached.
C10_ResearchFailureCachesNothing ==
    Miss =>
        /\ Chained(calls)
        /\ RaiseIsLast(calls)
        /\ pc = "Failed" =>
              IF Len(calls) <= 3
              THEN NothingCached
              ELSE /\ cache[clean_query].present
                   /\ cache[clean_query].value = calls[3].output
                   /\ cache[clean_query].value = article_draft

\* The draft stage raised in a run that found an expired entry.
C10_Witness ==
    /\ pc = "Failed"
    /\ Miss
    /\ lookup.entry.present
    /\ Len(calls) = 3
    /\ calls[3].output = RAISED

====
